---- MODULE Spec2Model ----
(***************************************************************************)
(* harbormaster: reconciliation of DigitalOcean droplets, domain records   *)
(* and floating IPs (DO_c) and of CloudFlare DNS records (CF_c).           *)
(*                                                                         *)
(* One behaviour is one invocation of the tool (for AssignDomainRecord, up *)
(* to MaxCalls invocations in succession with the same arguments).  It     *)
(* starts in main, which reads the config file; after that every           *)
(* action is one HTTP request together with the local code that runs until *)
(* the next request (or until the operation returns).  The provider is the *)
(* environment: it owns the collections, answers each request with one of  *)
(* Responses and completes power and resize events asynchronously.         *)
(***************************************************************************)
EXTENDS Integers, Sequences, FiniteSets, TLC

\* ---------------------------------------------------------------- bounds
MaxNodes == 11          \* droplets at the provider before the invocation
MaxLockPolls == 4       \* lock polls the provider may answer "locked"
MaxSize == 2            \* target sizes 1..MaxSize (gb)
MaxRecords == 3         \* DNS records at the provider before the invocation
MaxPageSize == 2        \* the provider's DNS page size is 1..MaxPageSize
MaxNodeID == 2          \* droplet ids a floating IP is bound to / moved to
MaxCalls == 2           \* invocations of AssignDomainRecord in succession

\* ------------------------------------------------------ program constants
perPage == 10           \* getDropletFromName: per_page
maxTriesOff == 10       \* shutdownNode: waitForNodeStatus(.., "off", 10)
maxTriesActive == 10    \* ResizeNode: waitForNodeStatus(.., "active", 10)
StatusNoContent == 204  \* deleteRequest: resp.StatusCode != 204
MinAPIKeyLen == 64
MBPerGB == 1024         \* ResizeNode: droplet.Memory / 1024

\* ---------------------------------------------------------------- values
Nil == <<>>             \* a nil pointer; <<v>> is a pointer to v

ZeroDroplet == [ID |-> 0, Name |-> "", Memory |-> 0, Status |-> "", Locked |-> FALSE]

\* strings.ToLower on the names that occur in the model
ToLower(s) ==
    CASE s = "Web" -> "web"
      [] s = "WEB" -> "web"
      [] s = "WWW" -> "www"
      [] s = "Www" -> "www"
      [] OTHER -> s

Min(a, b) == IF a < b THEN a ELSE b

\* An HTTP exchange as the client sees it.  net = FALSE: client.Do returned an
\* error.  body: "data" the documented JSON for the endpoint; "mistyped" valid
\* JSON in which a field the code does not read has the wrong type; "garbage"
\* not JSON; "empty" no content; "errobj" the provider's JSON error object.
Responses ==
    {[net |-> FALSE, code |-> 0, body |-> "nil"]}
    \cup {[net |-> TRUE, code |-> 200, body |-> b] : b \in {"data", "mistyped", "garbage"}}
    \cup {[net |-> TRUE, code |-> StatusNoContent, body |-> "empty"]}
    \cup {[net |-> TRUE, code |-> 401, body |-> b] : b \in {"errobj", "garbage"}}

\* the provider carried the request out
Accepted(r) == r.net /\ r.code < 300

\* the exchange went the way the API documents it for a request of this kind
Succeeded(kind, r) ==
    /\ r.net
    /\ CASE kind = "delete" -> r.code = StatusNoContent
         [] kind = "cf_delete" -> r.code < 300
         [] OTHER -> r.code = 200 /\ r.body = "data"

\* DO_c.request: only a transport error is an error; the HTTP status is not read
request(r) ==
    IF r.net THEN [body |-> r.body, err |-> "nil"]
             ELSE [body |-> "nil", err |-> "transport"]

\* json.Unmarshal: the error it returns
UnmarshalErr(body) == IF body \in {"data", "errobj"} THEN "nil" ELSE "decode"

\* json.Unmarshal: whether the documented fields were filled in ("mistyped"
\* fails on another field and still fills these; an error object has none)
Decoded(body) == body \in {"data", "mistyped"}

\* ---------------------------------------------------------------- state
VARIABLES
    op,          \* the public operation this invocation runs
    args,        \* its arguments
    pc,          \* the request the code issues next, or "done"
    droplets,    \* provider: the droplet collection, in list order
    pEvent,      \* provider: the power/resize event in progress
    page,        \* getDropletFromName: page
    droplet,     \* the located droplet: Nil or <<snapshot>>
    err,         \* the operation's err result ("nil" for nil)
    maxTries,    \* waitForNodeStatus: maxTries
    fileOutput,  \* FileOutput_t.Droplet
    records,     \* provider: the DNS records of the domain / zone, in list order
    pageSize,    \* provider: records per page of the DNS list endpoints
    floating,    \* provider: the droplet id the floating IP is bound to (0: none)
    pages,       \* getDomainRecord: pages
    dr,          \* DO_c: the located record, Nil or <<record>>
    id,          \* CF_c: the located record's id, the string "" (Nil) or <<n>>
    existing,    \* main: existing
    reqs,        \* every request this invocation issued, in order
    obs,         \* what the responses were (history)
    calls,       \* the invocations that returned before this one: err, reqs, obs
    config,      \* harbormaster.json: whether it can be opened and decoded, and
                 \* the lengths of the strings of config_t
    peer         \* the locals of a second invocation running at the same time,
                 \* while this one runs: Nil when there is none

provider == <<droplets, pEvent, records, pageSize, floating>>
nodeLocals == <<page, droplet, maxTries, fileOutput>>
dnsLocals == <<pages, dr, id, existing>>

vars == <<op, args, pc, provider, nodeLocals, dnsLocals, err, reqs, obs, calls, config, peer>>

NodeOps == {"CreateNode", "DeleteNode", "ResizeNode"}

\* the droplets the provider holds: n of them, the one at position at (if any)
\* named like the node the invocation is about, with mem MB of memory
Collection(n, at, mem) ==
    [i \in 1..n |->
        [ID |-> 100 + i,
         Name |-> IF i = at THEN "Web" ELSE "db",
         Memory |-> IF i = at THEN mem ELSE MBPerGB,
         Status |-> "active",
         Locked |-> FALSE]]

\* collection sizes tried: every size for the operations that only locate and
\* mutate once; the resize machine reads nothing of the collection but the
\* located droplet, so it is run on the empty, the one-page and the largest one
NodeCounts(o) == IF o = "ResizeNode" THEN {0, 1, MaxNodes} ELSE 0..MaxNodes

Memories == {MBPerGB \div 2, MBPerGB, MBPerGB + MBPerGB \div 2, 2 * MBPerGB}

NoEvent == [id |-> 0, goal |-> "", mem |-> 0]

\* history of the invocation, read by the properties only:
\*   net           a request failed at the transport level
\*   notOk         an exchange did not go the way the API documents it
\*   httpLocateAt  number of requests issued when a list request was first
\*                 answered with a status of 300 and above (0: never)
\*   httpMut       a create / assign / droplet action request was answered
\*                 with a status of 300 and above
\*   listErr       the last request was a list request of a locator, and it
\*                 failed at the transport level or its response failed to
\*                 deserialize
\*   located       what the last locate scan returned: "", "error", "none", "found"
\*   offSeen, offTimedOut        outcome of the wait for "off"
\*   activeSeen, timedOut        outcome of the wait for "active"
\*   unlockedSeen  a lock poll that succeeded reported the flag clear
\*   lockPolls     lock polls answered "locked"
\*   startedLocked the provider's locked flag when power_on was issued
\*   actionNet     a shutdown, power_off or resize request failed at the
\*                 transport level
\*   deleteCode    status of the response to the delete request (0: none)
NoObs == [net |-> FALSE, notOk |-> FALSE, httpLocateAt |-> 0, listErr |-> FALSE, httpMut |-> FALSE,
          located |-> "", offSeen |-> FALSE, offTimedOut |-> FALSE,
          activeSeen |-> FALSE, timedOut |-> FALSE, unlockedSeen |-> FALSE,
          lockPolls |-> 0, startedLocked |-> FALSE, actionNet |-> FALSE,
          deleteCode |-> 0]

\* the DNS records the provider holds: n of them, the one at position at (if
\* any) named like the subdomain the invocation is about
RecordCollection(n, at, type, data) ==
    [i \in 1..n |->
        [ID |-> 200 + i,
         Type |-> IF i = at THEN type ELSE "MX",
         Name |-> IF i = at THEN "Www" ELSE "mail",
         Data |-> IF i = at THEN data ELSE "9.9.9.9"]]

\* the collection seq with a second item of the name searched at position k
\* (spelled in lower case), or seq itself when k = 0
WithDuplicate(seq, k, name) == IF k = 0 THEN seq ELSE [seq EXCEPT ![k].Name = name]

\* where the second item is put: nowhere, or after the first one, next to it
\* or at the end of the list (every later position for the short record
\* lists); the resize machine is run without duplicates
Duplicates(o, n, at) ==
    IF at = 0 \/ o = "ResizeNode" THEN {0}
    ELSE IF o \in NodeOps THEN {0} \cup ({at + 1, n} \cap (at + 1)..n)
    ELSE {0} \cup (at + 1)..n

DNSOps == {"DO_AssignDomainRecord", "DO_DeleteDomainRecord",
           "CF_AssignDomainRecord", "CF_DeleteDomainRecord"}

Ops == NodeOps \cup DNSOps \cup {"FloatingIP"}

NoArgs == [name |-> "", size |-> 0, domain |-> "", domainType |-> "", subDomain |-> "",
           ip |-> "", nodeID |-> 0]

\* the operations main runs on the CloudFlare library (flag -cloudflare)
CloudFlareOps == {"CF_AssignDomainRecord", "CF_DeleteDomainRecord"}

\* a harbormaster.json with a DigitalOcean key of length k and CloudFlare
\* strings of the lengths ck, ce, cz
Config(file, k, ck, ce, cz) ==
    [file |-> file, DO |-> [APIKey |-> k], CF |-> [APIKey |-> ck, Email |-> ce, Zone |-> cz]]

\* the config files tried: missing, not JSON, and every combination of an
\* absent, a short and a long DigitalOcean key with no CloudFlare section or
\* one with a key whose email or zone may be missing; the resize machine is
\* run with the DigitalOcean key alone
Configs(o) ==
    IF o = "ResizeNode" THEN {Config("ok", MinAPIKeyLen, 0, 0, 0)}
    ELSE {Config("missing", 0, 0, 0, 0), Config("garbage", 0, 0, 0, 0)}
         \cup {Config("ok", k, 0, 0, 0) : k \in {0, MinAPIKeyLen - 1, MinAPIKeyLen}}
         \cup {Config("ok", k, 1, ce, cz) :
                    k \in {0, MinAPIKeyLen - 1, MinAPIKeyLen}, ce \in 0..1, cz \in 0..1}

\* readConfig: the error it returns
readConfig(c) ==
    IF c.file = "missing" THEN "open"
    ELSE IF c.file = "garbage" THEN "decode"
    ELSE IF c.DO.APIKey < 1 /\ c.CF.APIKey < 1 THEN "No valid api keys found"
    ELSE IF c.DO.APIKey > 0 /\ c.DO.APIKey < MinAPIKeyLen THEN "Digital Ocean api key appears invalid"
    ELSE IF c.CF.APIKey > 0 /\ c.CF.Email < 1 THEN "Cloud Flare requires an email"
    ELSE IF c.CF.APIKey > 0 /\ c.CF.Zone < 1 THEN "Cloud Flare requires a zone id"
    ELSE "nil"

\* the first request of each operation
Entry(o) ==
    CASE o \in NodeOps -> "getDropletFromName"
      [] o \in {"DO_AssignDomainRecord", "DO_DeleteDomainRecord"} -> "getDomainRecord"
      [] o \in {"CF_AssignDomainRecord", "CF_DeleteDomainRecord"} -> "cf_getDomainRecord"
      [] o = "FloatingIP" -> "GetFloatingIP"

InitNode ==
    /\ op \in NodeOps
    /\ \E sz \in 1..MaxSize : args = [NoArgs EXCEPT !.name = "WEB", !.size = sz]
    /\ \E n \in NodeCounts(op), mem \in Memories :
         \E at \in {0, 1, n} : \E k \in Duplicates(op, n, at) :
            droplets = WithDuplicate(Collection(n, at, mem), k, "web")
    /\ records = <<>>
    /\ pageSize = 1
    /\ floating = 0

InitDNS ==
    /\ op \in DNSOps
    /\ \E t \in {"A", "CNAME"} :
         args = [NoArgs EXCEPT !.domain = "Example.com", !.domainType = t,
                               !.subDomain = "WWW", !.ip = "1.1.1.1"]
    /\ droplets = <<>>
    /\ \E n \in 0..MaxRecords, data \in {"1.1.1.1", "2.2.2.2"} :
         \E at \in 0..n : \E k \in Duplicates(op, n, at) :
            records = WithDuplicate(RecordCollection(n, at, "A", data), k, "www")
    /\ pageSize \in 1..MaxPageSize
    /\ floating = 0

InitFloating ==
    /\ op = "FloatingIP"
    /\ \E n \in 1..MaxNodeID : args = [NoArgs EXCEPT !.ip = "1.1.1.1", !.nodeID = n]
    /\ droplets = <<>>
    /\ records = <<>>
    /\ pageSize = 1
    /\ floating \in 0..MaxNodeID

Start ==
    /\ (InitNode \/ InitDNS \/ InitFloating)
    /\ pEvent = NoEvent
    /\ pc = "main"
    /\ config \in Configs(op)
    /\ page = 1
    /\ droplet = Nil
    /\ err = "nil"
    /\ maxTries = 0
    /\ fileOutput = ZeroDroplet
    /\ pages = 1
    /\ dr = Nil
    /\ id = Nil
    /\ existing = 0
    /\ reqs = <<>>
    /\ obs = NoObs
    /\ calls = <<>>

\* one invocation of the program
Init == Start /\ peer = Nil

\* ------------------------------------------------------------ requests
\* a request: method, endpoint, the page or resource id in the URL, and the
\* fields of the JSON payload (zero values where the payload has none)
Req(m, url, n, type, name, data, num) ==
    [m |-> m, url |-> url, n |-> n, type |-> type, name |-> name, data |-> data, num |-> num]

Get(url, n) == Req("GET", url, n, "", "", "", 0)

\* a droplet action: do_t{Type: type} (Size: "<num>gb" for a resize)
Action(n, type, num) == Req("POST", "droplets/actions", n, type, "", "", num)

Mutating(q) == q.m # "GET"

Observe(kind, r) ==
    [obs EXCEPT !.net = @ \/ ~r.net,
                !.notOk = @ \/ ~Succeeded(kind, r),
                !.httpLocateAt = IF @ = 0 /\ kind = "locate" /\ r.net /\ r.code >= 300
                                 THEN Len(reqs) + 1 ELSE @,
                !.listErr = kind = "locate" /\ (~r.net \/ UnmarshalErr(r.body) # "nil"),
                !.httpMut = @ \/ (kind = "mutate" /\ r.net /\ r.code >= 300),
                !.deleteCode = IF kind \in {"delete", "cf_delete"} /\ r.net THEN r.code ELSE @]

\* what a locate scan returned
Outcome(d, e) == IF e # "nil" THEN "error" ELSE IF d = Nil THEN "none" ELSE "found"

\* the provider's current snapshot of droplet id
Snapshot(n) ==
    IF \E i \in 1..Len(droplets) : droplets[i].ID = n
    THEN droplets[CHOOSE i \in 1..Len(droplets) : droplets[i].ID = n]
    ELSE ZeroDroplet

PageOf(seq, p, n) == SubSeq(seq, (p - 1) * n + 1, Min(p * n, Len(seq)))

\* index of the first item of items whose lower-cased name is name, or 0
FirstMatch_last(items, name) ==
    IF \E i \in 1..Len(items) : ToLower(items[i].Name) = name
    THEN CHOOSE i \in 1..Len(items) :
            /\ ToLower(items[i].Name) = name
            /\ \A j \in (i + 1)..Len(items) : ToLower(items[j].Name) # name
    ELSE 0

FirstMatch(items, name) ==
    IF \E i \in 1..Len(items) : ToLower(items[i].Name) = name
    THEN CHOOSE i \in 1..Len(items) :
            /\ ToLower(items[i].Name) = name
            /\ \A j \in 1..(i - 1) : ToLower(items[j].Name) # name
    ELSE 0


\* one page of the droplet list as getDropletFromName decodes it
decodeDroplets(body, p) == IF Decoded(body) THEN PageOf(droplets, p, perPage) ELSE <<>>

\* getDropletFromID: the request's error and json.Unmarshal's error are both
\* dropped, so every failed exchange yields the zero droplet
getDropletFromID(n, r) ==
    LET res == request(r)
    IN IF res.err = "nil" /\ Decoded(res.body) THEN Snapshot(n) ELSE ZeroDroplet

deleteRequest_any2xx(r) ==
    IF ~r.net THEN "transport"
    ELSE IF r.code >= 300 THEN "status"
    ELSE "nil"

\* DO_c.deleteRequest: the error it returns
deleteRequest(r) ==
    IF ~r.net THEN "transport"
    ELSE IF r.code # StatusNoContent THEN "status"
    ELSE "nil"

\* provider: droplet id with fields changed
SetDroplet(n, status, locked, mem) ==
    [i \in 1..Len(droplets) |->
        IF droplets[i].ID = n
        THEN [droplets[i] EXCEPT !.Status = status, !.Locked = locked, !.Memory = mem]
        ELSE droplets[i]]

Without(seq, n) == SelectSeq(seq, LAMBDA d : d.ID # n)

\* ------------------------------------------ callers of getDropletFromName
\* what ResizeNode, DeleteNode and CreateNode do with the result (d, e) of
\* getDropletFromName, up to their next request
ResizeNodeLocated_nocompare(d, e) ==
    /\ pc' = IF e = "nil" /\ d # Nil THEN "shutdownNode" ELSE "done"
    /\ err' = e
    /\ UNCHANGED fileOutput

DeleteNodeLocated_notfound(d, e) ==
    /\ pc' = IF e = "nil" /\ d # Nil THEN "deleteRequest" ELSE "done"
    /\ err' = IF e = "nil" /\ d = Nil THEN "notfound" ELSE e
    /\ UNCHANGED fileOutput

ResizeNodeLocated_inverted(d, e) ==
    /\ pc' = IF e = "nil" /\ d # Nil /\ (d[1].Memory \div MBPerGB) = args.size
             THEN "shutdownNode" ELSE "done"
    /\ err' = e
    /\ UNCHANGED fileOutput

ResizeNodeLocated_absentFails(d, e) ==
    /\ pc' = IF e = "nil" /\ d # Nil /\ (d[1].Memory \div MBPerGB) # args.size
             THEN "shutdownNode" ELSE "done"
    /\ err' = IF e = "nil" /\ d = Nil THEN "notfound" ELSE e
    /\ UNCHANGED fileOutput

ResizeNodeLocated_exact(d, e) ==
    /\ pc' = IF e = "nil" /\ d # Nil /\ d[1].Memory # args.size * MBPerGB
             THEN "shutdownNode" ELSE "done"
    /\ err' = e
    /\ UNCHANGED fileOutput
ResizeNodeLocated(d, e) ==
    /\ pc' = IF e = "nil" /\ d # Nil /\ (d[1].Memory \div MBPerGB) # args.size
             THEN "shutdownNode" ELSE "done"
    /\ err' = e
    /\ UNCHANGED fileOutput

DeleteNodeLocated(d, e) ==
    /\ pc' = IF e = "nil" /\ d # Nil THEN "deleteRequest" ELSE "done"
    /\ err' = e
    /\ UNCHANGED fileOutput

CreateNodeLocated_recreate(d, e) ==
    /\ pc' = IF e = "nil" /\ pc = "getDropletFromName" THEN "createRequest" ELSE "done"
    /\ err' = e
    /\ fileOutput' = IF e = "nil" /\ d # Nil THEN d[1] ELSE fileOutput

CreateNodeLocated(d, e) ==
    /\ pc' = IF e = "nil" /\ d = Nil /\ pc = "getDropletFromName" THEN "createRequest" ELSE "done"
    /\ err' = e
    /\ fileOutput' = IF e = "nil" /\ d # Nil THEN d[1] ELSE fileOutput

Located(d, e) ==
    /\ droplet' = d
    /\ page' = page
    /\ CASE op = "ResizeNode" -> ResizeNodeLocated(d, e)
         [] op = "DeleteNode" -> DeleteNodeLocated(d, e)
         [] op = "CreateNode" -> CreateNodeLocated(d, e)

\* getDropletFromName: one pass of its loop on page p answered by r.  ret: the
\* function returns (d, e); otherwise it goes on to page p + 1
scanDroplets_untilEmpty(r, p) ==
    LET res == request(r)
        items == decodeDroplets(res.body, p)
        hit == FirstMatch(items, ToLower(args.name))
    IN IF res.err # "nil" THEN [ret |-> TRUE, d |-> Nil, e |-> res.err]
       ELSE IF hit # 0 THEN [ret |-> TRUE, d |-> <<items[hit]>>, e |-> "nil"]
       ELSE IF Len(items) = 0 THEN [ret |-> TRUE, d |-> Nil, e |-> UnmarshalErr(res.body)]
       ELSE [ret |-> FALSE, d |-> Nil, e |-> "nil"]

scanDroplets(r, p) ==
    LET res == request(r)
        items == decodeDroplets(res.body, p)
        hit == FirstMatch(items, ToLower(args.name))
    IN IF res.err # "nil" THEN [ret |-> TRUE, d |-> Nil, e |-> res.err]
       ELSE IF hit # 0 THEN [ret |-> TRUE, d |-> <<items[hit]>>, e |-> "nil"]
       ELSE IF Len(items) < perPage THEN [ret |-> TRUE, d |-> Nil, e |-> UnmarshalErr(res.body)]
       ELSE [ret |-> FALSE, d |-> Nil, e |-> "nil"]

\* getDropletFromName: one list request, and the caller's code once it returns
getDropletFromName ==
    /\ pc \in {"getDropletFromName", "refetch"}
    /\ \E r \in Responses :
        LET scan == scanDroplets(r, page)
        IN /\ reqs' = Append(reqs, Get("droplets", page))
           /\ obs' = [Observe("locate", r) EXCEPT
                        !.located = IF scan.ret THEN Outcome(scan.d, scan.e) ELSE @]
           /\ IF scan.ret THEN Located(scan.d, scan.e)
              ELSE /\ page' = page + 1
                   /\ UNCHANGED <<pc, droplet, err, fileOutput>>
    /\ UNCHANGED <<peer, config, calls, op, args, provider, maxTries, dnsLocals>>

\* ------------------------------------------------------------ ResizeNode
afterAction_ignore(e, next) == next

\* shutdownNode and ResizeNode go on to their next request when an action
\* request returned a nil error, and return the error otherwise
afterAction(e, next) == IF e = "nil" THEN next ELSE "done"

\* shutdownNode: the shutdown request
shutdownNode ==
    /\ pc = "shutdownNode"
    /\ \E r \in Responses :
        LET res == request(r)
        IN /\ reqs' = Append(reqs, Action(droplet[1].ID, "shutdown", 0))
           /\ obs' = [Observe("mutate", r) EXCEPT !.actionNet = @ \/ ~r.net]
           /\ err' = res.err
           /\ pc' = afterAction(res.err, "waitOff")
           /\ maxTries' = IF res.err = "nil" THEN maxTriesOff ELSE maxTries
           /\ pEvent' = IF Accepted(r) THEN [id |-> droplet[1].ID, goal |-> "off", mem |-> 0]
                        ELSE pEvent
    /\ UNCHANGED <<peer, config, calls, op, args, droplets, page, droplet, fileOutput, records, pageSize, floating,
                   dnsLocals>>

afterWaitOff_always(off) == "power_off"

afterWaitOff_never(off) == "resize"

\* shutdownNode: "if !off" sends power_off, otherwise it returns to ResizeNode,
\* whose next request is the resize
afterWaitOff(off) == IF off THEN "resize" ELSE "power_off"

\* ResizeNode drops the result of the wait for "active" and returns
afterWaitActive_pollOn(active) == IF active THEN "done" ELSE "waitActive"

afterWaitActive(active) == "done"

\* waitForNodeStatus: one call of the recursion (one status poll), and what
\* its caller does when it returns
waitForNodeStatus ==
    /\ pc \in {"waitOff", "waitActive"}
    /\ \E r \in Responses :
        LET dStatus == getDropletFromID(droplet[1].ID, r)
            status == IF pc = "waitOff" THEN "off" ELSE "active"
            reached == dStatus.Status = status
            exhausted == ~reached /\ maxTries - 1 < 0
        IN /\ reqs' = Append(reqs, Get("droplets/id", droplet[1].ID))
           /\ obs' = [Observe("poll", r) EXCEPT
                        !.offSeen = @ \/ (pc = "waitOff" /\ reached),
                        !.offTimedOut = @ \/ (pc = "waitOff" /\ exhausted),
                        !.activeSeen = @ \/ (pc = "waitActive" /\ reached),
                        !.timedOut = @ \/ (pc = "waitActive" /\ exhausted)]
           /\ maxTries' = IF reached THEN maxTries ELSE maxTries - 1
           /\ pc' = IF ~reached /\ ~exhausted THEN pc
                    ELSE IF pc = "waitOff" THEN afterWaitOff(reached)
                    ELSE afterWaitActive(reached)
    /\ UNCHANGED <<peer, config, calls, op, args, droplets, pEvent, page, droplet, err, fileOutput, records, pageSize,
                   floating, dnsLocals>>

\* shutdownNode: the power_off request after the wait gave up
powerOff ==
    /\ pc = "power_off"
    /\ \E r \in Responses :
        LET res == request(r)
        IN /\ reqs' = Append(reqs, Action(droplet[1].ID, "power_off", 0))
           /\ obs' = [Observe("mutate", r) EXCEPT !.actionNet = @ \/ ~r.net]
           /\ err' = res.err
           /\ pc' = afterAction(res.err, "resize")
           /\ pEvent' = IF Accepted(r) THEN [id |-> droplet[1].ID, goal |-> "off", mem |-> 0]
                        ELSE pEvent
    /\ UNCHANGED <<peer, config, calls, op, args, droplets, page, droplet, maxTries, fileOutput, records, pageSize,
                   floating, dnsLocals>>

\* ResizeNode: the resize request
resize ==
    /\ pc = "resize"
    /\ \E r \in Responses :
        LET res == request(r)
            did == droplet[1].ID
        IN /\ reqs' = Append(reqs, Action(did, "resize", args.size))
           /\ obs' = [Observe("mutate", r) EXCEPT !.actionNet = @ \/ ~r.net]
           /\ err' = res.err
           /\ pc' = afterAction(res.err, "lockWait")
           /\ droplets' = IF Accepted(r)
                          THEN SetDroplet(did, Snapshot(did).Status, TRUE, Snapshot(did).Memory)
                          ELSE droplets
           /\ pEvent' = IF Accepted(r) THEN [pEvent EXCEPT !.id = did, !.mem = args.size * MBPerGB]
                        ELSE pEvent
    /\ UNCHANGED <<peer, config, calls, op, args, page, droplet, maxTries, fileOutput, records, pageSize, floating,
                   dnsLocals>>

\* ResizeNode: one pass of the "for locked" loop up to its poll's verdict
lockWait ==
    /\ pc = "lockWait"
    /\ \E r \in Responses :
        LET dStatus == getDropletFromID(droplet[1].ID, r)
        IN /\ dStatus.Locked => obs.lockPolls < MaxLockPolls
           /\ reqs' = Append(reqs, Get("droplets/id", droplet[1].ID))
           /\ obs' = [Observe("poll", r) EXCEPT
                        !.lockPolls = IF dStatus.Locked THEN @ + 1 ELSE @,
                        !.unlockedSeen = @ \/ (Succeeded("poll", r) /\ ~dStatus.Locked)]
           /\ pc' = IF dStatus.Locked THEN pc ELSE "startNode"
    /\ UNCHANGED <<peer, config, calls, op, args, droplets, pEvent, page, droplet, err, maxTries, fileOutput, records,
                   pageSize, floating, dnsLocals>>

\* startNode, called from the lock loop with its error dropped, then the
\* first argument setup of the final wait
startNode ==
    /\ pc = "startNode"
    /\ \E r \in Responses :
        LET did == droplet[1].ID
        IN /\ reqs' = Append(reqs, Action(did, "power_on", 0))
           /\ obs' = [Observe("mutate", r) EXCEPT !.startedLocked = Snapshot(did).Locked]
           /\ pEvent' = IF Accepted(r) THEN [pEvent EXCEPT !.id = did, !.goal = "active"]
                        ELSE pEvent
    /\ pc' = "waitActive"
    /\ maxTries' = maxTriesActive
    /\ UNCHANGED <<peer, config, calls, op, args, droplets, page, droplet, err, fileOutput, records, pageSize,
                   floating, dnsLocals>>

\* ------------------------------------------------------------ DeleteNode
deleteNodeRequest ==
    /\ pc = "deleteRequest"
    /\ op = "DeleteNode"
    /\ \E r \in Responses :
        /\ reqs' = Append(reqs, Req("DELETE", "droplets/id", droplet[1].ID, "", "", "", 0))
        /\ obs' = Observe("delete", r)
        /\ err' = deleteRequest(r)
        /\ droplets' = IF Accepted(r) THEN Without(droplets, droplet[1].ID) ELSE droplets
    /\ pc' = "done"
    /\ UNCHANGED <<peer, config, calls, op, args, pEvent, page, droplet, maxTries, fileOutput, records, pageSize,
                   floating, dnsLocals>>

\* ------------------------------------------------------------ CreateNode
createNodeRequest_unlessExists ==
    /\ pc = "createRequest"
    /\ op = "CreateNode"
    /\ \A i \in 1..Len(droplets) : ToLower(droplets[i].Name) # ToLower(args.name)
    /\ \E r \in Responses :
        LET res == request(r)
        IN /\ reqs' = Append(reqs, Req("POST", "droplets", 0, "", args.name, "", args.size))
           /\ obs' = Observe("mutate", r)
           /\ err' = res.err
           /\ pc' = IF res.err = "nil" THEN "refetch" ELSE "done"
           /\ droplets' = IF Accepted(r)
                          THEN Append(droplets, [ID |-> 100 + Len(droplets) + 1, Name |-> args.name,
                                                 Memory |-> args.size * MBPerGB, Status |-> "new",
                                                 Locked |-> FALSE])
                          ELSE droplets
    /\ page' = 1
    /\ UNCHANGED <<peer, config, calls, op, args, pEvent, droplet, maxTries, fileOutput, records, pageSize, floating,
                   dnsLocals>>
createNodeRequest ==
    /\ pc = "createRequest"
    /\ op = "CreateNode"
    /\ \E r \in Responses :
        LET res == request(r)
        IN /\ reqs' = Append(reqs, Req("POST", "droplets", 0, "", args.name, "", args.size))
           /\ obs' = Observe("mutate", r)
           /\ err' = res.err
           /\ pc' = IF res.err = "nil" THEN "refetch" ELSE "done"
           /\ droplets' = IF Accepted(r)
                          THEN Append(droplets, [ID |-> 100 + Len(droplets) + 1, Name |-> args.name,
                                                 Memory |-> args.size * MBPerGB, Status |-> "new",
                                                 Locked |-> FALSE])
                          ELSE droplets
    /\ page' = 1
    /\ UNCHANGED <<peer, config, calls, op, args, pEvent, droplet, maxTries, fileOutput, records, pageSize, floating,
                   dnsLocals>>

\* ------------------------------------------------- DO_c domain records
\* one page of the record list as DO_c.getDomainRecord decodes it
decodeRecords(body, p) == IF Decoded(body) THEN PageOf(records, p, pageSize) ELSE <<>>

\* links.pages.next of page p: present while records remain after the page
NextLink(body, p) == Decoded(body) /\ p * pageSize < Len(records)

\* what AssignDomainRecord and DeleteDomainRecord (DO_c) do with the result
\* (d, e) of getDomainRecord, up to their next request
AssignDomainRecordLocated_ignoretype(d, e) ==
    IF e # "nil" THEN pc' = "done" /\ err' = e
    ELSE IF d = Nil THEN pc' = "createDomainRecord" /\ err' = e
    ELSE pc' = "done" /\ err' = "nil"

AssignDomainRecordLocated_createonerror(d, e) ==
    IF d = Nil THEN pc' = "createDomainRecord" /\ err' = e
    ELSE IF args.domainType = d[1].Type THEN pc' = "done" /\ err' = "nil"
    ELSE pc' = "done" /\ err' = "notimpl"

AssignDomainRecordLocated(d, e) ==
    IF e # "nil" THEN pc' = "done" /\ err' = e
    ELSE IF d = Nil THEN pc' = "createDomainRecord" /\ err' = e
    ELSE IF args.domainType = d[1].Type THEN pc' = "done" /\ err' = "nil"
    ELSE pc' = "done" /\ err' = "notimpl"

DeleteDomainRecordLocated(d, e) ==
    /\ pc' = IF e = "nil" /\ d # Nil THEN "deleteRecord" ELSE "done"
    /\ err' = e

RecordLocated(d, e) ==
    /\ dr' = d
    /\ pages' = pages
    /\ CASE op = "DO_AssignDomainRecord" -> AssignDomainRecordLocated(d, e)
         [] op = "DO_DeleteDomainRecord" -> DeleteDomainRecordLocated(d, e)

\* DO_c.getDomainRecord: one pass of its loop on page p answered by r
scanRecords(r, p) ==
    LET res == request(r)
        uerr == UnmarshalErr(res.body)
        items == decodeRecords(res.body, p)
        hit == FirstMatch(items, ToLower(args.subDomain))
    IN IF res.err # "nil" THEN [ret |-> TRUE, d |-> Nil, e |-> res.err]
       ELSE IF uerr # "nil" THEN [ret |-> TRUE, d |-> Nil, e |-> uerr]
       ELSE IF hit # 0 THEN [ret |-> TRUE, d |-> <<items[hit]>>, e |-> "nil"]
       ELSE IF NextLink(res.body, p) THEN [ret |-> FALSE, d |-> Nil, e |-> "nil"]
       ELSE [ret |-> TRUE, d |-> Nil, e |-> "nil"]

\* DO_c.getDomainRecord: one list request, and the caller's code once it returns
getDomainRecord ==
    /\ pc = "getDomainRecord"
    /\ \E r \in Responses :
        LET scan == scanRecords(r, pages)
        IN /\ reqs' = Append(reqs, Get("domains/records", pages))
           /\ obs' = [Observe("locate", r) EXCEPT
                        !.located = IF scan.ret THEN Outcome(scan.d, scan.e) ELSE @]
           /\ IF scan.ret THEN RecordLocated(scan.d, scan.e)
              ELSE pages' = pages + 1 /\ UNCHANGED <<pc, dr, err>>
    /\ UNCHANGED <<peer, config, calls, op, args, provider, nodeLocals, id, existing>>

\* DO_c.createDomainRecord, called from AssignDomainRecord
createDomainRecord ==
    /\ pc = "createDomainRecord"
    /\ \E r \in Responses :
        LET res == request(r)
            sub == ToLower(args.subDomain)
        IN /\ reqs' = Append(reqs, Req("POST", "domains/records", 0, args.domainType, sub,
                                       args.ip, 0))
           /\ obs' = Observe("mutate", r)
           /\ err' = res.err
           /\ records' = IF Accepted(r)
                         THEN Append(records, [ID |-> 200 + Len(records) + 1,
                                               Type |-> args.domainType, Name |-> sub,
                                               Data |-> args.ip])
                         ELSE records
    /\ pc' = "done"
    /\ UNCHANGED <<peer, config, calls, op, args, droplets, pEvent, pageSize, floating, nodeLocals, dnsLocals>>

\* DO_c.DeleteDomainRecord: the delete request
deleteRecord ==
    /\ pc = "deleteRecord"
    /\ \E r \in Responses :
        /\ reqs' = Append(reqs, Req("DELETE", "domains/records/id", dr[1].ID, "", "", "", 0))
        /\ obs' = Observe("delete", r)
        /\ err' = deleteRequest(r)
        /\ records' = IF Accepted(r) THEN Without(records, dr[1].ID) ELSE records
    /\ pc' = "done"
    /\ UNCHANGED <<peer, config, calls, op, args, droplets, pEvent, pageSize, floating, nodeLocals, dnsLocals>>

\* ------------------------------------------------- CF_c domain records
\* CF_c.request: a transport error or a status of 300 and above is an error
cf_request(r) ==
    IF ~r.net THEN [body |-> "nil", err |-> "transport"]
    ELSE IF r.code >= 300 THEN [body |-> "nil", err |-> "status"]
    ELSE [body |-> r.body, err |-> "nil"]

\* CF_c.deleteRequest: the error it returns
cf_deleteRequest_nostatus(r) == IF ~r.net THEN "transport" ELSE "nil"

cf_deleteRequest(r) ==
    IF ~r.net THEN "transport"
    ELSE IF r.code >= 300 THEN "status"
    ELSE "nil"

\* fmt.Sprintf("%s.%s", sub, zone), and strings.ToLower of such a name
Fqdn(sub, zone) == <<sub, zone>>
ToLowerFqdn(n) == <<ToLower(n[1]), ToLower(n[2])>>

\* the zone's records as the CloudFlare API renders them
cf_Render(rec) == [ID |-> <<rec.ID>>, Name |-> Fqdn(rec.Name, "example.com"),
                   ZoneName |-> "example.com"]

cf_decodeRecords(body, p) ==
    IF Decoded(body)
    THEN [i \in 1..Len(PageOf(records, p, pageSize)) |-> cf_Render(PageOf(records, p, pageSize)[i])]
    ELSE <<>>

\* result_info.total_pages
TotalPages_plusOne(body) ==
    IF Decoded(body) THEN (Len(records) + pageSize - 1) \div pageSize + 1 ELSE 0

TotalPages(body) == IF Decoded(body) THEN (Len(records) + pageSize - 1) \div pageSize ELSE 0

cf_FirstMatch(items, subDomain) ==
    IF \E i \in 1..Len(items) : ToLowerFqdn(items[i].Name) = Fqdn(subDomain, items[i].ZoneName)
    THEN CHOOSE i \in 1..Len(items) :
            /\ ToLowerFqdn(items[i].Name) = Fqdn(subDomain, items[i].ZoneName)
            /\ \A j \in 1..(i - 1) :
                 ToLowerFqdn(items[j].Name) # Fqdn(subDomain, items[j].ZoneName)
    ELSE 0

\* what AssignDomainRecord and DeleteDomainRecord (CF_c) do with the result
\* (i, e) of getDomainRecord, up to their next request
cf_Located_createOnly(i, e) ==
    /\ id' = i
    /\ err' = e
    /\ pages' = pages
    /\ pc' = IF e # "nil" THEN "done"
             ELSE IF op = "CF_AssignDomainRecord"
                  THEN "cf_createDomainRecord"
                  ELSE (IF Len(i) = 0 THEN "done" ELSE "cf_deleteRecord")
cf_Located(i, e) ==
    /\ id' = i
    /\ err' = e
    /\ pages' = pages
    /\ pc' = IF e # "nil" THEN "done"
             ELSE IF op = "CF_AssignDomainRecord"
                  THEN (IF Len(i) = 0 THEN "cf_createDomainRecord" ELSE "cf_updateDomainRecord")
                  ELSE (IF Len(i) = 0 THEN "done" ELSE "cf_deleteRecord")

\* CF_c.getDomainRecord: one pass of its loop on page p answered by r
cf_scanRecords_onePageMore(r, p) ==
    LET res == cf_request(r)
        uerr == UnmarshalErr(res.body)
        items == cf_decodeRecords(res.body, p)
        hit == cf_FirstMatch(items, ToLower(args.subDomain))
    IN IF res.err # "nil" THEN [ret |-> TRUE, d |-> Nil, e |-> res.err]
       ELSE IF uerr # "nil" THEN [ret |-> TRUE, d |-> Nil, e |-> uerr]
       ELSE IF hit # 0 THEN [ret |-> TRUE, d |-> items[hit].ID, e |-> "nil"]
       ELSE IF TotalPages(res.body) >= p THEN [ret |-> FALSE, d |-> Nil, e |-> "nil"]
       ELSE [ret |-> TRUE, d |-> Nil, e |-> "nil"]
cf_scanRecords(r, p) ==
    LET res == cf_request(r)
        uerr == UnmarshalErr(res.body)
        items == cf_decodeRecords(res.body, p)
        hit == cf_FirstMatch(items, ToLower(args.subDomain))
    IN IF res.err # "nil" THEN [ret |-> TRUE, d |-> Nil, e |-> res.err]
       ELSE IF uerr # "nil" THEN [ret |-> TRUE, d |-> Nil, e |-> uerr]
       ELSE IF hit # 0 THEN [ret |-> TRUE, d |-> items[hit].ID, e |-> "nil"]
       ELSE IF TotalPages(res.body) > p THEN [ret |-> FALSE, d |-> Nil, e |-> "nil"]
       ELSE [ret |-> TRUE, d |-> Nil, e |-> "nil"]

\* CF_c.getDomainRecord: one list request, and the caller's code once it returns
cf_getDomainRecord ==
    /\ pc = "cf_getDomainRecord"
    /\ \E r \in Responses :
        LET scan == cf_scanRecords(r, pages)
        IN /\ reqs' = Append(reqs, Get("dns_records", pages))
           /\ obs' = [Observe("locate", r) EXCEPT
                        !.located = IF scan.ret THEN Outcome(scan.d, scan.e) ELSE @]
           /\ IF scan.ret THEN cf_Located(scan.d, scan.e)
              ELSE pages' = pages + 1 /\ UNCHANGED <<pc, id, err>>
    /\ UNCHANGED <<peer, config, calls, op, args, provider, nodeLocals, dr, existing>>

\* CF_c.createDomainRecord and CF_c.updateDomainRecord, called from AssignDomainRecord
cf_writeDomainRecord ==
    /\ pc \in {"cf_createDomainRecord", "cf_updateDomainRecord"}
    /\ \E r \in Responses :
        LET res == cf_request(r)
            sub == ToLower(args.subDomain)
            rec == [Type |-> args.domainType, Name |-> sub, Data |-> args.ip]
        IN /\ reqs' = Append(reqs,
                        IF pc = "cf_createDomainRecord"
                        THEN Req("POST", "dns_records", 0, args.domainType, sub, args.ip, 0)
                        ELSE Req("PUT", "dns_records/id", id[1], args.domainType, sub, args.ip, 0))
           /\ obs' = Observe("mutate", r)
           /\ err' = res.err
           /\ records' =
                IF ~Accepted(r) THEN records
                ELSE IF pc = "cf_createDomainRecord"
                THEN Append(records, [ID |-> 200 + Len(records) + 1, Type |-> rec.Type,
                                      Name |-> rec.Name, Data |-> rec.Data])
                ELSE [k \in 1..Len(records) |->
                        IF records[k].ID = id[1]
                        THEN [ID |-> id[1], Type |-> rec.Type, Name |-> rec.Name, Data |-> rec.Data]
                        ELSE records[k]]
    /\ pc' = "done"
    /\ UNCHANGED <<peer, config, calls, op, args, droplets, pEvent, pageSize, floating, nodeLocals, dnsLocals>>

\* CF_c.DeleteDomainRecord: the delete request
cf_deleteRecord ==
    /\ pc = "cf_deleteRecord"
    /\ \E r \in Responses :
        /\ reqs' = Append(reqs, Req("DELETE", "dns_records/id", id[1], "", "", "", 0))
        /\ obs' = Observe("cf_delete", r)
        /\ err' = cf_deleteRequest(r)
        /\ records' = IF Accepted(r) THEN Without(records, id[1]) ELSE records
    /\ pc' = "done"
    /\ UNCHANGED <<peer, config, calls, op, args, droplets, pEvent, pageSize, floating, nodeLocals, dnsLocals>>

\* ---------------------------------------------------------- floating IP
\* GetFloatingIP and the comparison main makes with its result
GetFloatingIP ==
    /\ pc = "GetFloatingIP"
    /\ \E r \in Responses :
        LET res == request(r)
            e == IF res.err # "nil" THEN res.err ELSE UnmarshalErr(res.body)
            got == IF res.err = "nil" /\ Decoded(res.body) THEN floating ELSE 0
        IN /\ reqs' = Append(reqs, Get("floating_ips", 0))
           /\ obs' = Observe("locate", r)
           /\ existing' = got
           /\ err' = e
           /\ pc' = IF e = "nil" /\ got # args.nodeID THEN "AssignFloatingIP" ELSE "done"
    /\ UNCHANGED <<peer, config, calls, op, args, provider, nodeLocals, pages, dr, id>>

AssignFloatingIP ==
    /\ pc = "AssignFloatingIP"
    /\ \E r \in Responses :
        LET res == request(r)
        IN /\ reqs' = Append(reqs, Req("POST", "floating_ips/actions", 0, "assign", "", args.ip,
                                       args.nodeID))
           /\ obs' = Observe("mutate", r)
           /\ err' = res.err
           /\ floating' = IF Accepted(r) THEN args.nodeID ELSE floating
    /\ pc' = "done"
    /\ UNCHANGED <<peer, config, calls, op, args, droplets, pEvent, records, pageSize, nodeLocals, dnsLocals>>

\* ------------------------------------------------------------- main
\* main up to the call of the operation: readConfig, exit 1 on its error,
\* exit 3 when -cloudflare is given and the config has no CloudFlare key
main ==
    /\ pc = "main"
    /\ LET e == readConfig(config)
       IN IF e # "nil" THEN pc' = "exit" /\ err' = e
          ELSE IF op \in CloudFlareOps /\ config.CF.APIKey < 1
          THEN pc' = "exit" /\ err' = "Cannot use CloudFlare without the api_key"
          ELSE pc' = Entry(op) /\ err' = err
    /\ UNCHANGED <<peer, op, args, config, calls, provider, nodeLocals, dnsLocals, reqs, obs>>

\* ------------------------------------------------------- the next call
\* the tool is run again with the same arguments once AssignDomainRecord has
\* returned; the provider keeps what the earlier invocation left
CallAgain ==
    /\ pc = "done"
    /\ op \in {"DO_AssignDomainRecord", "CF_AssignDomainRecord"}
    /\ Len(calls) + 1 < MaxCalls
    /\ calls' = Append(calls, [err |-> err, reqs |-> reqs, obs |-> obs])
    /\ pc' = "main"
    /\ pages' = 1
    /\ dr' = Nil
    /\ id' = Nil
    /\ existing' = 0
    /\ err' = "nil"
    /\ reqs' = <<>>
    /\ obs' = NoObs
    /\ UNCHANGED <<peer, op, args, config, provider, nodeLocals>>

\* -------------------------------------------------------------- provider
\* the provider finishes the power event in progress
ProviderPower ==
    /\ pc # "done"
    /\ pEvent.goal # ""
    /\ Snapshot(pEvent.id).Status # pEvent.goal
    /\ droplets' = SetDroplet(pEvent.id, pEvent.goal, Snapshot(pEvent.id).Locked,
                              Snapshot(pEvent.id).Memory)
    /\ UNCHANGED <<peer, config, calls, op, args, pc, pEvent, page, droplet, err, maxTries, fileOutput, reqs, obs,
                   records, pageSize, floating, dnsLocals>>

\* the provider finishes the resize and clears the locked flag
ProviderUnlock ==
    /\ pc # "done"
    /\ Snapshot(pEvent.id).Locked
    /\ droplets' = SetDroplet(pEvent.id, Snapshot(pEvent.id).Status, FALSE, pEvent.mem)
    /\ UNCHANGED <<peer, config, calls, op, args, pc, pEvent, page, droplet, err, maxTries, fileOutput, reqs, obs,
                   records, pageSize, floating, dnsLocals>>

Next ==
    \/ main
    \/ getDropletFromName
    \/ shutdownNode
    \/ waitForNodeStatus
    \/ powerOff
    \/ resize
    \/ lockWait
    \/ startNode
    \/ deleteNodeRequest
    \/ createNodeRequest
    \/ getDomainRecord
    \/ createDomainRecord
    \/ deleteRecord
    \/ cf_getDomainRecord
    \/ cf_writeDomainRecord
    \/ cf_deleteRecord
    \/ GetFloatingIP
    \/ AssignFloatingIP
    \/ CallAgain
    \/ ProviderPower
    \/ ProviderUnlock

Spec == Init /\ [][Next]_vars

\* ------------------------------------------------- ResizeNode, scheduled
\* the steps of the program in an invocation of ResizeNode: each one is a
\* blocking request, after which the code goes on by itself
ResizeStep ==
    \/ main
    \/ getDropletFromName
    \/ shutdownNode
    \/ waitForNodeStatus
    \/ powerOff
    \/ resize
    \/ lockWait
    \/ startNode

LiveInit == Init /\ op = "ResizeNode"

LiveNext == ResizeStep \/ ProviderPower \/ ProviderUnlock

\* the program keeps running while it has a step to take; the provider is
\* not obliged to finish anything
LiveSpec == LiveInit /\ [][LiveNext]_vars /\ WF_vars(ResizeStep)

\* ------------------------------------------- two invocations of CreateNode
\* Each invocation is a process of its own: it shares nothing with another
\* one but the provider, and takes no lock.  The two processes interleave
\* at their requests; peer holds the locals of the one that is not running.
Running == [pc |-> pc, page |-> page, droplet |-> droplet, err |-> err,
            fileOutput |-> fileOutput, reqs |-> reqs, obs |-> obs]

\* the other invocation, which has a request left to issue, runs next
Switch ==
    /\ peer # Nil
    /\ peer.pc \notin {"done", "exit"}
    /\ peer' = Running
    /\ pc' = peer.pc
    /\ page' = peer.page
    /\ droplet' = peer.droplet
    /\ err' = peer.err
    /\ fileOutput' = peer.fileOutput
    /\ reqs' = peer.reqs
    /\ obs' = peer.obs
    /\ UNCHANGED <<op, args, config, calls, provider, maxTries, dnsLocals>>

\* both invocations are given the same name and start in main
RaceInit ==
    /\ Start
    /\ op = "CreateNode"
    /\ peer = Running

RaceNext ==
    \/ main
    \/ getDropletFromName
    \/ createNodeRequest
    \/ Switch

RaceSpec == RaceInit /\ [][RaceNext]_vars

TypeOK == pc \in {"main", "exit", "getDropletFromName", "refetch", "shutdownNode", "waitOff",
                  "power_off", "resize",
                  "lockWait", "startNode", "waitActive", "deleteRequest", "createRequest",
                  "getDomainRecord", "createDomainRecord", "deleteRecord",
                  "cf_getDomainRecord", "cf_createDomainRecord", "cf_updateDomainRecord",
                  "cf_deleteRecord", "GetFloatingIP", "AssignFloatingIP", "done"}

\* ============================================================ properties
ActionReqs == SelectSeq(reqs, LAMBDA q : q.url = "droplets/actions")
ActionTypes == [i \in 1..Len(ActionReqs) |-> ActionReqs[i].type]
MutatingReqs == SelectSeq(reqs, Mutating)
Issued(type) == \E i \in 1..Len(reqs) : reqs[i].url = "droplets/actions" /\ reqs[i].type = type

\* ResizeNode located the node and its capacity (in whole GB, as ResizeNode
\* computes it) differs from / equals the target
ResizeDiffers ==
    op = "ResizeNode" /\ obs.located = "found" /\ (droplet[1].Memory \div MBPerGB) # args.size
ResizeEqual ==
    op = "ResizeNode" /\ obs.located = "found" /\ (droplet[1].Memory \div MBPerGB) = args.size

\* C1: when ResizeNode has returned for a located node whose capacity differs
\* from the target, every exchange succeeded, a poll of the shutdown wait saw
\* "off", a lock poll saw the flag clear and a poll of the final wait saw
\* "active", the actions issued are exactly shutdown, resize, power_on.
C1_HappyPathActions ==
    (ResizeDiffers /\ pc = "done" /\ ~obs.notOk /\ obs.offSeen /\ obs.unlockedSeen
        /\ obs.activeSeen)
    => ActionTypes = <<"shutdown", "resize", "power_on">>

\* the scenario of the specification: "off" on the 3rd poll, the lock clear on
\* the 5th poll, "active" on the 2nd poll
C1_Witness ==
    /\ ResizeDiffers /\ pc = "done" /\ ~obs.notOk
    /\ obs.offSeen /\ obs.unlockedSeen /\ obs.activeSeen
    /\ \E k \in 1..2 :
        /\ Len(reqs) = k + 13
        /\ reqs[k + 1].type = "shutdown"
        /\ reqs[k + 5].type = "resize"
        /\ reqs[k + 11].type = "power_on"

\* C2: once the shutdown wait has exhausted its budget without seeing "off",
\* the next request is the power_off action, the resize action follows it
\* directly (no poll in between), and the invocation still returns success
\* unless a request fails at the transport level.
C2_ForcedPowerOff ==
    (op = "ResizeNode" /\ obs.offTimedOut) =>
        /\ pc # "power_off" => Issued("power_off")
        /\ \A j \in 1..Len(reqs) :
             reqs[j].type = "resize" => (j > 1 /\ reqs[j - 1].type = "power_off")
        /\ (pc = "done" /\ ~obs.net) => err = "nil"

C2_Witness ==
    /\ op = "ResizeNode" /\ obs.offTimedOut /\ ~obs.offSeen
    /\ pc = "done" /\ err = "nil"
    /\ ActionTypes = <<"shutdown", "power_off", "resize", "power_on">>

\* C3: power_on is issued only when the provider's locked flag is clear and a
\* lock poll has actually observed it clear.
C3_NoStartWhileLocked ==
    Issued("power_on") => (~obs.startedLocked /\ obs.unlockedSeen)

\* C4: ResizeNode returns a failure when the final wait exhausts its budget,
\* and returns success after power_on only if a poll saw "active".
C4_ActiveTimeoutIsFailure ==
    (op = "ResizeNode" /\ pc = "done") =>
        /\ obs.timedOut => err # "nil"
        /\ (err = "nil" /\ Issued("power_on")) => obs.activeSeen

\* C5: ResizeNode returns a failure whenever one of its requests failed at the
\* transport level.
C5_TransportFailurePropagates ==
    (op = "ResizeNode" /\ pc = "done" /\ obs.net) => err # "nil"

\* C6 (as stated): ResizeNode on a node already at the target capacity issues
\* zero requests.
C6_ZeroRequests == ResizeEqual => Len(reqs) = 0

\* C6 (amended): ResizeNode on a node already at the target capacity returns
\* success having issued only the list requests of the locate scan, pages
\* 1, 2, ..: no action request and no status poll.
C6_NoopOnlyLocates ==
    ResizeEqual =>
        /\ pc = "done" /\ err = "nil"
        /\ \A i \in 1..Len(reqs) : reqs[i] = Get("droplets", i)

C6_Witness == ResizeEqual /\ pc = "done" /\ Len(reqs) = 2

\* C7: once a list request of CreateNode, DeleteNode, ResizeNode,
\* AssignDomainRecord or DeleteDomainRecord has been answered with a status
\* of 300 and above, no mutating request follows and the operation returns
\* a failure.
C7_LocateStatusIsFailure ==
    (op # "FloatingIP" /\ obs.httpLocateAt > 0) =>
        /\ \A i \in 1..Len(reqs) : i > obs.httpLocateAt => ~Mutating(reqs[i])
        /\ pc = "done" => err # "nil"

\* C8: an operation whose create, assign or droplet action request was
\* answered with a status of 300 and above returns a failure.
C8_RejectedMutationIsFailure ==
    (pc = "done" /\ obs.httpMut) => err # "nil"

\* C9: DeleteNode and DeleteDomainRecord (both providers) whose scan finished
\* without error and found nothing have returned success and issued no
\* mutating request.
C9_DeleteAbsentNoop ==
    (op \in {"DeleteNode", "DO_DeleteDomainRecord", "CF_DeleteDomainRecord"}
        /\ obs.located = "none")
    => (pc = "done" /\ err = "nil" /\ MutatingReqs = <<>>)

C9_Witness ==
    /\ op = "DeleteNode" /\ obs.located = "none" /\ pc = "done"
    /\ Len(droplets) > perPage /\ Len(reqs) = 2

\* C10: DeleteNode whose scan found the node issues, as its only mutating
\* request, one DELETE addressed to the id of the provider's node of that
\* name, and returns success exactly when the response status is 204.
C10_DeleteFound ==
    (op = "DeleteNode" /\ obs.located = "found") =>
        /\ ToLower(droplet[1].Name) = ToLower(args.name)
        /\ pc # "done" =>
             /\ pc = "deleteRequest" /\ MutatingReqs = <<>>
             /\ Snapshot(droplet[1].ID) = droplet[1]
        /\ pc = "done" =>
             /\ MutatingReqs = <<Req("DELETE", "droplets/id", droplet[1].ID, "", "", "", 0)>>
             /\ reqs[Len(reqs)] = MutatingReqs[1]
             /\ err = "nil" <=> obs.deleteCode = StatusNoContent

C10_Witness ==
    /\ op = "DeleteNode" /\ obs.located = "found" /\ pc = "done"
    /\ err = "nil" /\ obs.deleteCode = StatusNoContent
    /\ Len(MutatingReqs) = 1

\* the id of the record DeleteDomainRecord located (dr.ID for DO_c, id for CF_c)
LocatedRecordID == IF op = "DO_DeleteDomainRecord" THEN dr[1].ID ELSE id[1]

\* C11: DeleteDomainRecord (both providers) whose scan found a record for the
\* subdomain issues, as its only mutating request, one DELETE addressed to
\* the id of that record, which is a record of the provider with the
\* subdomain's name; it returns success exactly when the response status is
\* 204 (DO_c), below 300 (CF_c).
C11_DeleteRecordFound ==
    (op \in {"DO_DeleteDomainRecord", "CF_DeleteDomainRecord"} /\ obs.located = "found") =>
        /\ pc # "done" =>
             /\ pc = (IF op = "DO_DeleteDomainRecord" THEN "deleteRecord" ELSE "cf_deleteRecord")
             /\ MutatingReqs = <<>>
             /\ \E i \in 1..Len(records) :
                  /\ records[i].ID = LocatedRecordID
                  /\ ToLower(records[i].Name) = ToLower(args.subDomain)
        /\ pc = "done" =>
             /\ MutatingReqs =
                  <<Req("DELETE",
                        IF op = "DO_DeleteDomainRecord" THEN "domains/records/id"
                                                         ELSE "dns_records/id",
                        LocatedRecordID, "", "", "", 0)>>
             /\ reqs[Len(reqs)] = MutatingReqs[1]
             /\ err = "nil" <=>
                  (IF op = "DO_DeleteDomainRecord" THEN obs.deleteCode = StatusNoContent
                   ELSE obs.deleteCode \in 1..299)

\* CloudFlare acknowledges the delete of a record found on the second page
\* with 200
C11_Witness ==
    /\ op = "CF_DeleteDomainRecord" /\ obs.located = "found" /\ pc = "done"
    /\ err = "nil" /\ obs.deleteCode = 200
    /\ Len(reqs) = 3 /\ Len(MutatingReqs) = 1

\* the invocation before this one created a record: its last request was the
\* create and the provider carried it out
FirstCallCreated ==
    /\ Len(calls) = 1
    /\ Len(calls[1].reqs) > 0
    /\ calls[1].reqs[Len(calls[1].reqs)].m = "POST"
    /\ calls[1].err = "nil" /\ ~calls[1].obs.httpMut

\* C12: when AssignDomainRecord (DO_c) is run a second time with the same
\* arguments after a first run that created the record, and the provider
\* answers every list request of the second run as documented (the created
\* record is on the list), the second run issues no mutating request and
\* returns success.
C12_SecondCallNoop ==
    (op = "DO_AssignDomainRecord" /\ FirstCallCreated /\ ~obs.notOk) =>
        /\ MutatingReqs = <<>>
        /\ pc = "done" => err = "nil"

\* C13: AssignDomainRecord (DO_c) whose scan found a record of a type other
\* than the desired one has returned the "not in place" error and issued no
\* mutating request.
C13_TypeMismatchIsError ==
    (op = "DO_AssignDomainRecord" /\ obs.located = "found" /\ dr[1].Type # args.domainType) =>
        /\ pc = "done" /\ err = "notimpl"
        /\ MutatingReqs = <<>>

\* a CNAME is asked for, and the record found on the second page is an A
C13_Witness ==
    /\ op = "DO_AssignDomainRecord" /\ obs.located = "found" /\ pc = "done"
    /\ args.domainType = "CNAME" /\ dr[1].Type = "A"
    /\ Len(reqs) = 2 /\ calls = <<>>

\* C14: AssignDomainRecord (DO_c) that returns after its scan found a record
\* of the desired type with a value other than the desired one returns the
\* "not in place" error.
C14_ValueDriftIsError ==
    (op = "DO_AssignDomainRecord" /\ obs.located = "found" /\ pc = "done"
        /\ dr[1].Type = args.domainType /\ dr[1].Data # args.ip)
    => err = "notimpl"

\* the create request of AssignDomainRecord (DO_c)
CreateRecordReq ==
    Req("POST", "domains/records", 0, args.domainType, ToLower(args.subDomain), args.ip, 0)

\* C15: AssignDomainRecord (DO_c) whose scan returned without error and
\* without a record issues, as its only mutating request and its last
\* request, one create carrying the desired type, the lower-cased subdomain
\* and the desired value; in every other case it issues no mutating request.
C15_CreateWhenAbsent ==
    op = "DO_AssignDomainRecord" =>
        /\ obs.located = "none" =>
             \/ pc = "createDomainRecord" /\ MutatingReqs = <<>>
             \/ /\ pc = "done"
                /\ MutatingReqs = <<CreateRecordReq>>
                /\ reqs[Len(reqs)] = CreateRecordReq
        /\ obs.located # "none" => MutatingReqs = <<>>

C15_Witness ==
    /\ op = "DO_AssignDomainRecord" /\ obs.located = "none" /\ pc = "done"
    /\ args.subDomain = "WWW" /\ MutatingReqs[1].name = "www"
    /\ MutatingReqs[1].type = args.domainType /\ MutatingReqs[1].data = "1.1.1.1"
    /\ Len(reqs) = 3 /\ calls = <<>>

\* the assign action of the binding operation
AssignReq == Req("POST", "floating_ips/actions", 0, "assign", "", args.ip, args.nodeID)

\* C16: when the floating IP is bound to the target droplet, the binding
\* operation returns after its fetch: no request follows the GET, so no
\* mutating request is issued.  (The binding read here is the provider's
\* before any assign: one request has been issued, the fetch.)
C16_BoundIsNoop ==
    (op = "FloatingIP" /\ Len(reqs) = 1 /\ floating = args.nodeID) =>
        (pc = "done" /\ MutatingReqs = <<>>)

\* C17: the binding operation whose fetch was answered as documented with a
\* droplet other than the target (or none) issues the assign action naming
\* the target next; the requests of the operation are never more than the
\* fetch and that one assign; and when the fetch failed the operation has
\* returned a failure without an assign.
C17_AssignAfterFetch ==
    op = "FloatingIP" =>
        /\ (Len(reqs) = 1 /\ ~obs.notOk /\ floating # args.nodeID) => pc = "AssignFloatingIP"
        /\ Len(reqs) > 1 =>
             (pc = "done" /\ reqs = <<Get("floating_ips", 0), AssignReq>>)
        /\ (Len(reqs) = 1 /\ obs.notOk) =>
             (pc = "done" /\ err # "nil" /\ MutatingReqs = <<>>)

\* the provider's first page is the last one and holds no item of the name
\* searched: fewer droplets than perPage, or all the records on one page
ShortFirstPage ==
    IF op \in NodeOps
    THEN /\ Len(droplets) < perPage
         /\ \A i \in 1..Len(droplets) : ToLower(droplets[i].Name) # ToLower(args.name)
    ELSE /\ op \in DNSOps
         /\ Len(records) <= pageSize
         /\ \A i \in 1..Len(records) : ToLower(records[i].Name) # ToLower(args.subDomain)

Scanning == pc \in {"getDropletFromName", "refetch", "getDomainRecord", "cf_getDomainRecord"}

\* C18: when the first page is the last one and holds no match, and the list
\* request was answered as documented, the scan of every locator
\* (getDropletFromName, DO_c.getDomainRecord, CF_c.getDomainRecord) has
\* returned after that one request, with no resource and no error.
C18_ShortPageNotFound ==
    (Len(reqs) = 1 /\ ~obs.notOk /\ ShortFirstPage) =>
        /\ ~Scanning
        /\ obs.located = "none" /\ err = "nil"
        /\ droplet = Nil /\ dr = Nil /\ id = Nil

\* nine droplets, none of them the node
C18_Witness ==
    /\ op = "DeleteNode" /\ Len(droplets) = perPage - 1 /\ ShortFirstPage
    /\ Len(reqs) = 1 /\ ~obs.notOk /\ obs.located = "none" /\ pc = "done"

\* the provider's collection the operation scans, the name it searches, the
\* provider's page size and the list endpoint
Scanned == IF op \in NodeOps THEN droplets ELSE records
Searched == IF op \in NodeOps THEN ToLower(args.name) ELSE ToLower(args.subDomain)
ScanPageSize == IF op \in NodeOps THEN perPage ELSE pageSize
ListURL ==
    CASE op \in NodeOps -> "droplets"
      [] op \in {"DO_AssignDomainRecord", "DO_DeleteDomainRecord"} -> "domains/records"
      [] OTHER -> "dns_records"

\* position in the provider's list of the first item of the name searched
FirstPosition ==
    CHOOSE f \in 1..Len(Scanned) :
        /\ ToLower(Scanned[f].Name) = Searched
        /\ \A j \in 1..(f - 1) : ToLower(Scanned[j].Name) # Searched

\* C19: when the first scan of an operation has found a resource (and the
\* operation has not mutated anything yet), the provider's list holds an
\* item whose lower-cased name is the lower-cased name searched, the
\* resource returned is the first such item of the list, and the requests
\* issued are exactly the list requests for pages 1..k, in that order, where
\* page k is the page that holds that item.
C19_FirstMatchWins ==
    (op # "FloatingIP" /\ obs.located = "found" /\ MutatingReqs = <<>>) =>
        /\ \E f \in 1..Len(Scanned) : ToLower(Scanned[f].Name) = Searched
        /\ CASE op \in NodeOps -> droplet = <<Scanned[FirstPosition]>>
             [] op \in {"DO_AssignDomainRecord", "DO_DeleteDomainRecord"} ->
                    dr = <<Scanned[FirstPosition]>>
             [] OTHER -> id = <<Scanned[FirstPosition].ID>>
        /\ reqs = [i \in 1..((FirstPosition - 1) \div ScanPageSize + 1) |-> Get(ListURL, i)]

\* three records on pages of one: the first match is on page 2, another
\* record of that name on page 3
C19_Witness ==
    /\ op = "DO_DeleteDomainRecord" /\ obs.located = "found" /\ MutatingReqs = <<>>
    /\ pageSize = 1 /\ Len(records) = 3
    /\ records[2].Name = "Www" /\ records[3].Name = "www" /\ args.subDomain = "WWW"
    /\ dr = <<records[2]>> /\ Len(reqs) = 2

\* C20: when the last list request of a locator failed at the transport
\* level or its response failed to deserialize, the scan has stopped there:
\* the operation has returned the error, without a resource and without
\* another request.
C20_ScanErrorAborts ==
    (op # "FloatingIP" /\ obs.listErr) =>
        /\ pc = "done" /\ err # "nil" /\ obs.located = "error"
        /\ droplet = Nil /\ dr = Nil /\ id = Nil

\* every request issued so far is a list request of the node scan
OnlyNodeListReqs == reqs # <<>> /\ \A i \in 1..Len(reqs) : reqs[i] = Get("droplets", i)

\* C21: when the first scan of CreateNode has found a node of the given name
\* (lower-cased on both sides), CreateNode has returned success with nothing
\* but the list requests issued, and the output holds the located droplet,
\* which is the provider's droplet as it stands, whatever size was asked for.
C21_CreateFoundIsNoop ==
    (op = "CreateNode" /\ obs.located = "found" /\ OnlyNodeListReqs) =>
        /\ pc = "done" /\ err = "nil"
        /\ ToLower(droplet[1].Name) = ToLower(args.name)
        /\ fileOutput = droplet[1]
        /\ fileOutput = Snapshot(droplet[1].ID)

\* a 2gb node is asked for and the node found on the second page has 1gb
C21_Witness ==
    /\ op = "CreateNode" /\ obs.located = "found" /\ pc = "done"
    /\ Len(reqs) = 2 /\ OnlyNodeListReqs
    /\ args.size = 2 /\ fileOutput.Memory = MBPerGB /\ fileOutput.ID = 100 + MaxNodes

\* the create request of CreateNode
CreateNodeReq == Req("POST", "droplets", 0, "", args.name, "", args.size)

\* the create request was issued and failed: the provider answered it with a
\* status of 300 and above, or it was the last request and CreateNode holds
\* its transport error
CreateNodeFailed ==
    /\ MutatingReqs # <<>>
    /\ obs.httpMut \/ (reqs[Len(reqs)] = CreateNodeReq /\ err # "nil")

\* C22: CreateNode whose first scan returned no node and no error issues the
\* create request next; the create is its only mutating request; and once
\* the create has failed, it was the last request (no second scan) and the
\* output holds no snapshot.
C22_CreateThenRefetch ==
    op = "CreateNode" =>
        /\ (obs.located = "none" /\ OnlyNodeListReqs) => pc = "createRequest"
        /\ MutatingReqs \in {<<>>, <<CreateNodeReq>>}
        /\ CreateNodeFailed =>
             /\ pc = "done" /\ reqs[Len(reqs)] = CreateNodeReq
             /\ fileOutput = ZeroDroplet

\* C23: the value returned tells "no-op" from "mutation performed": of two
\* runs of an operation that both returned without a failure, either both
\* issued a mutating request or neither did.  A run that has returned is
\* compared with the runs of the same operation that returned before it.
C23_OutcomeTellsMutation ==
    (pc = "done" /\ err = "nil") =>
        \A i \in 1..Len(calls) :
            calls[i].err = err =>
                ((SelectSeq(calls[i].reqs, Mutating) # <<>>) <=> (MutatingReqs # <<>>))

\* the provider holds a droplet of the name the operation was given
NodeExists == \E i \in 1..Len(droplets) : ToLower(droplets[i].Name) = ToLower(args.name)

\* C24: when CreateNode or ResizeNode has returned success and the provider
\* holds a droplet of the given name, the output record holds a droplet of
\* that name.
C24_SuccessHasSnapshot ==
    (op \in {"CreateNode", "ResizeNode"} /\ pc = "done" /\ err = "nil" /\ NodeExists) =>
        /\ fileOutput # ZeroDroplet
        /\ ToLower(fileOutput.Name) = ToLower(args.name)

\* the requests that read the resource an operation is about: the list
\* requests of the scans and the fetch of the floating IP
LocateReq(q) ==
    q.m = "GET" /\ q.url \in {"droplets", "domains/records", "dns_records", "floating_ips"}

\* C25: the requests of an invocation come in the order locate, mutate, poll:
\* the first mutating request is preceded by locate requests only, at least
\* one, none of which was answered with an error status, and a status poll
\* is preceded by a mutating request.
C25_LocateMutatePoll ==
    \A j \in 1..Len(reqs) :
        /\ (Mutating(reqs[j]) /\ \A i \in 1..(j - 1) : ~Mutating(reqs[i])) =>
             /\ j > 1
             /\ \A i \in 1..(j - 1) : LocateReq(reqs[i])
             /\ obs.httpLocateAt \notin 1..(j - 1)
        /\ (~Mutating(reqs[j]) /\ ~LocateReq(reqs[j])) =>
             \E i \in 1..(j - 1) : Mutating(reqs[i])

\* the key of the provider the operation addresses is empty
AddressedKeyEmpty ==
    IF op \in CloudFlareOps THEN config.CF.APIKey = 0 ELSE config.DO.APIKey = 0

\* C26: a run whose config file fails readConfig, or holds an empty key for
\* the provider its operation addresses, issues no request.
C26_NoRequestWithoutCredentials ==
    (readConfig(config) # "nil" \/ AddressedKeyEmpty) => (reqs = <<>> /\ calls = <<>>)

\* the action types that may follow one another directly in ActionTypes
ActionOrder ==
    {<<"shutdown", "power_off">>, <<"shutdown", "resize">>, <<"power_off", "resize">>,
     <<"resize", "power_on">>}

\* C27: the actions ResizeNode issues are a prefix of shutdown, [power_off],
\* resize, power_on, each at most once; the resize is issued only after a
\* poll saw "off" or the power_off was issued; and the power_on is issued
\* only after a resize request that the provider carried out (the resize
\* event is in the provider's state).
C27_ActionPrefix ==
    op = "ResizeNode" =>
        /\ ActionTypes # <<>> => ActionTypes[1] = "shutdown"
        /\ \A i \in 1..(Len(ActionTypes) - 1) :
             <<ActionTypes[i], ActionTypes[i + 1]>> \in ActionOrder
        /\ Issued("resize") => (obs.offSeen \/ Issued("power_off"))
        /\ Issued("power_on") => (Issued("resize") /\ pEvent.mem = args.size * MBPerGB)

\* a status poll: the request of getDropletFromID
PollReqs == SelectSeq(reqs, LAMBDA q : q.m = "GET" /\ q.url = "droplets/id")

\* C28: ResizeNode that located a node whose capacity (whole GB) equals the
\* target has returned success, and has issued no droplet action, no other
\* mutating request and no status poll.
C28_EqualSkipsMachine ==
    ResizeEqual =>
        /\ ActionReqs = <<>> /\ MutatingReqs = <<>> /\ PollReqs = <<>>
        /\ pEvent = NoEvent
        /\ pc = "done" /\ err = "nil"

\* a 1gb node found on the first page, 1gb asked for
C28_Witness ==
    /\ ResizeEqual /\ pc = "done" /\ err = "nil"
    /\ droplet[1].Memory = MBPerGB /\ args.size = 1 /\ Len(reqs) = 1 /\ ~obs.notOk

IsPoll(q) == q.m = "GET" /\ q.url = "droplets/id"

\* number of status polls issued directly after the action of type t
PollsAfter(t) ==
    LET i == CHOOSE i \in 1..Len(reqs) : reqs[i].url = "droplets/actions" /\ reqs[i].type = t
    IN Cardinality({k \in (i + 1)..Len(reqs) : \A j \in (i + 1)..k : IsPoll(reqs[j])})

\* C29: a wait started with maxTries = 10 issues at most 10 status polls
\* (the polls that follow shutdown, and those that follow power_on), and a
\* wait that saw its status does not poll again: after "off" the next
\* request is the resize, after "active" ResizeNode returns.
C29_AtMostMaxTriesPolls ==
    op = "ResizeNode" =>
        /\ Issued("shutdown") => PollsAfter("shutdown") <= maxTriesOff
        /\ Issued("power_on") => PollsAfter("power_on") <= maxTriesActive
        /\ obs.offSeen => (pc # "waitOff" /\ ~Issued("power_off"))
        /\ obs.activeSeen => pc = "done"

\* C30: once a shutdown, power_off or resize request of ResizeNode has failed
\* at the transport level, that request is the last one, ResizeNode has
\* returned the transport error, and no power_on has been issued.
C30_FailedActionStops ==
    (op = "ResizeNode" /\ obs.actionNet) =>
        /\ pc = "done" /\ err = "transport"
        /\ reqs[Len(reqs)].url = "droplets/actions"
        /\ reqs[Len(reqs)].type \in {"shutdown", "power_off", "resize"}
        /\ ~Issued("power_on")

\* the resize request fails after the droplet went off: it stays off
C30_Witness ==
    /\ op = "ResizeNode" /\ obs.actionNet /\ pc = "done"
    /\ ActionTypes = <<"shutdown", "resize">>
    /\ Snapshot(droplet[1].ID).Status = "off"

\* no droplet of the provider has the name searched
NoNodeOfName ==
    \A i \in 1..Len(droplets) : ToLower(droplets[i].Name) # ToLower(args.name)

\* the number of list requests a scan without a match costs
NotFoundCost == Len(droplets) \div perPage + 1

\* C32: on a collection of N droplets none of which has the name, with every
\* list request answered as documented, getDropletFromName issues the list
\* requests for pages 1, 2, .. and returns "not found" (no droplet, no error)
\* after exactly floor(N / 10) + 1 of them: it is still scanning on every
\* page before that one.
C32_NotFoundAfterShortPage ==
    (op \in NodeOps /\ NoNodeOfName /\ ~obs.notOk /\ MutatingReqs = <<>>
        /\ pc \notin {"main", "exit"}) =>
        /\ \A i \in 1..Len(reqs) : reqs[i] = Get("droplets", i)
        /\ Len(reqs) <= NotFoundCost
        /\ Len(reqs) < NotFoundCost <=> pc = "getDropletFromName"
        /\ Len(reqs) = NotFoundCost =>
             (obs.located = "none" /\ droplet = Nil /\ err = "nil")

\* ten droplets: the full first page is followed by a request for an empty one
C32_Witness ==
    /\ op = "DeleteNode" /\ NoNodeOfName /\ Len(droplets) = perPage
    /\ ~obs.notOk /\ obs.located = "none" /\ pc = "done" /\ err = "nil"
    /\ reqs = <<Get("droplets", 1), Get("droplets", 2)>>

\* no record of the zone has the subdomain's name
NoRecordOfName ==
    \A i \in 1..Len(records) : ToLower(records[i].Name) # ToLower(args.subDomain)

\* C33: CF_c.getDomainRecord on a zone none of whose records matches, with
\* every list request answered as documented, requests pages 1, 2, .. in
\* that order, goes on while the total_pages the provider reports is greater
\* than the page just read, and returns "not found" (no id, no error) on the
\* first page where it is not: with total_pages = T >= 1 on every page it
\* issues exactly T requests (one request when T = 0).
C33_StopsAtTotalPages ==
    (op \in CloudFlareOps /\ NoRecordOfName /\ ~obs.notOk /\ MutatingReqs = <<>>
        /\ pc \notin {"main", "exit"}) =>
        LET T == TotalPages("data")
            cost == IF T >= 1 THEN T ELSE 1
        IN /\ \A i \in 1..Len(reqs) : reqs[i] = Get("dns_records", i)
           /\ Len(reqs) <= cost
           /\ pc = "cf_getDomainRecord" <=> Len(reqs) < cost
           /\ Len(reqs) = cost => (obs.located = "none" /\ id = Nil /\ err = "nil")

\* three records on pages of one: total_pages = 3 costs three requests
C33_Witness ==
    /\ op = "CF_DeleteDomainRecord" /\ NoRecordOfName /\ ~obs.notOk
    /\ Len(records) = 3 /\ pageSize = 1 /\ TotalPages("data") = 3
    /\ pc = "done" /\ obs.located = "none" /\ err = "nil"
    /\ reqs = <<Get("dns_records", 1), Get("dns_records", 2), Get("dns_records", 3)>>

C35_ResizeAbsentIsSuccess ==
    (op = "ResizeNode" /\ obs.located = "none") =>
        /\ pc = "done" /\ err = "nil" /\ droplet = Nil
        /\ ActionReqs = <<>> /\ PollReqs = <<>> /\ MutatingReqs = <<>>
        /\ OnlyNodeListReqs
        /\ pEvent = NoEvent

\* eleven droplets, none of them the node: two list requests and success
C35_Witness ==
    /\ op = "ResizeNode" /\ obs.located = "none" /\ pc = "done" /\ err = "nil"
    /\ Len(droplets) > perPage /\ NoNodeOfName /\ Len(reqs) = 2 /\ ~obs.notOk

\* ResizeNode has gone past its comparison into the resize machine / has
\* returned without an action request
ResizeMachineEntered == pc = "shutdownNode" \/ ActionReqs # <<>>
ResizeNoop == pc = "done" /\ err = "nil" /\ ActionReqs = <<>>

\* C36: ResizeNode that located a node takes the no-op branch exactly when
\* floor(Memory / 1024) of the located snapshot equals the target in whole
\* gigabytes, and enters the resize machine otherwise: a 1536 MB node is at
\* a target of 1, and a node below 1024 MB is at no positive target.
C36_WholeGigabytes ==
    (op = "ResizeNode" /\ obs.located = "found") =>
        /\ ResizeNoop <=> (droplet[1].Memory \div MBPerGB) = args.size
        /\ ResizeMachineEntered <=> (droplet[1].Memory \div MBPerGB) # args.size
        /\ (droplet[1].Memory = MBPerGB + MBPerGB \div 2 /\ args.size = 1) => ResizeNoop
        /\ (droplet[1].Memory < MBPerGB /\ args.size >= 1) => ResizeMachineEntered

\* a 1536 MB node against a target of 1 gb: nothing is done
C36_Witness ==
    /\ op = "ResizeNode" /\ obs.located = "found" /\ ResizeNoop
    /\ droplet[1].Memory = MBPerGB + MBPerGB \div 2 /\ args.size = 1
    /\ Snapshot(droplet[1].ID).Memory = droplet[1].Memory

\* a 512 MB node against a target of 1 gb: the machine runs
C36_WitnessSmall ==
    /\ op = "ResizeNode" /\ obs.located = "found" /\ ResizeMachineEntered
    /\ droplet[1].Memory = MBPerGB \div 2 /\ args.size = 1 /\ Issued("resize")

\* the two invocations of CreateNode that run at the same time
Invocations == {Running, peer}

\* the droplets of the provider that have the name CreateNode was given
NodesOfName == {i \in 1..Len(droplets) : ToLower(droplets[i].Name) = ToLower(args.name)}

\* C37: of two interleaved invocations of CreateNode for one name, each one
\* whose first scan returned no node goes on to the create request, and
\* that request can be issued, whatever the other invocation has done in
\* the meantime and whether or not the provider holds a node of the name by
\* then: each invocation issues at most one create request, and nothing
\* makes the two of them issue fewer than two.
C37_NothingPreventsSecondCreate ==
    /\ \A inv \in Invocations :
        /\ (inv.obs.located = "none" /\ inv.reqs # <<>>
                /\ SelectSeq(inv.reqs, Mutating) = <<>>) => inv.pc = "createRequest"
        /\ SelectSeq(inv.reqs, Mutating) \in {<<>>, <<CreateNodeReq>>}
    /\ pc = "createRequest" => ENABLED createNodeRequest

\* both scans were answered as documented and found no node, both create
\* requests were accepted: the provider holds two droplets of the name
C37_Witness ==
    /\ \A inv \in Invocations :
        /\ inv.pc = "done" /\ inv.err = "nil" /\ ~inv.obs.notOk
        /\ SelectSeq(inv.reqs, Mutating) = <<CreateNodeReq>>
    /\ Cardinality(NodesOfName) = 2

\* the invocation has returned to the caller (main exits on a bad configuration)
Returned == pc \in {"done", "exit"}

\* C31: every invocation of ResizeNode on a finite droplet collection returns
\* once a lock poll stops reporting the droplet locked (which the bound on
\* the locked answers makes every behaviour do).  The two status waits count maxTries down from
\* 10 and leave at the poll that finds it 0; the lock loop has no counter:
\* it repeats exactly on the polls that report locked, changing nothing of
\* the program's state, and leaves for power_on on the first poll that does
\* not.
C31_ResizeTerminates ==
    /\ <>Returned
    /\ [](pc \in {"waitOff", "waitActive"} => maxTries \in 0..maxTriesOff)
    /\ [][(pc \in {"waitOff", "waitActive"} /\ pc' = pc) => maxTries' = maxTries - 1]_reqs
    /\ [][pc = "lockWait" =>
            /\ pc' = "lockWait" <=> obs'.lockPolls = obs.lockPolls + 1
            /\ pc' # "lockWait" => (pc' = "startNode" /\ obs'.lockPolls = obs.lockPolls)
            /\ UNCHANGED <<maxTries, err, droplet, page, fileOutput>>]_reqs

\* ResizeNode has returned after the lock loop saw the droplet locked on
\* every poll but the last
C31_Witness ==
    /\ op = "ResizeNode" /\ pc = "done" /\ Issued("power_on")
    /\ obs.lockPolls = MaxLockPolls /\ obs.unlockedSeen
    /\ obs.offTimedOut /\ obs.timedOut

====
